---- MODULE Spec2Model ----
(***************************************************************************)
(* Model of the batch builders of InjuryPrev-IoT:                          *)
(*   src/webApp/scripts/build_survival_labels.py  (survival labels T, E)   *)
(*   src/webApp/scripts/build_rolling_features.py (rolling statistics)     *)
(*                                                                         *)
(* Representation.                                                         *)
(*   - An id is a sequence of one-character strings, so that str.strip()   *)
(*     is an operation on it.                                              *)
(*   - A raw date cell is <<>> (text that does not parse), <<d>> (day d)   *)
(*     or <<d, h>> (day d with a time of day h).  A parsed date is <<>>    *)
(*     (NaT) or <<d>>: normalize() drops the time of day.                  *)
(*   - A feature cell is <<>> (missing / not numeric) or <<v>>.            *)
(*   - A rolling mean is an exact fraction <<num, den>> in lowest terms;   *)
(*     a rolling std is the square root of the population variance: a      *)
(*     fraction, or <<num, den, 2>> when the root is irrational.           *)
(***************************************************************************)
EXTENDS Integers, Sequences, FiniteSets, TLC

VARIABLES
    prog,               \* the function that runs
    pc,                 \* position of the run
    err,                \* the error raised, "" while there is none
    err_count,          \* the count the error message reports, 0 if none
    event_source,       \* config of load_event_dates
    injury,             \* input: the injury file
    illness,            \* input: the illness file
    output_file,        \* the file at the output path of a script
    exclude_cols,       \* config of build_rolling_features
    stored,             \* web API: the files stored on disk
    dirs,               \* web API: the directories on disk
    daily,              \* input: the daily table, a sequence of raw rows
    events_df,          \* input: the event table (player_id, date)
    gap_days,           \* config of build_survival_labels
    include_same_day,   \* config of build_survival_labels
    window,             \* config of build_rolling_features
    min_periods,        \* config of build_rolling_features
    stats,              \* config of build_rolling_features
    df,                 \* the working table after normalization and sort
    event_map,          \* player_id -> episode starts
    out,                \* the returned table
    dates,              \* input of _episode_starts
    episodes            \* result of _episode_starts

vars == <<prog, pc, err, err_count, event_source, injury, illness, output_file,
          exclude_cols, stored, dirs, daily, events_df, gap_days, include_same_day, window,
          min_periods, stats, df, event_map, out, dates, episodes>>

(***************************************************************************)
(* Bounds of the model                                                     *)
(***************************************************************************)
MaxDate == 3
MaxEvents == 2
MaxGap == 1
MaxEpisodeLen == 4
MaxEpisodeDate == 10
MaxEpisodeGap == 2
MaxRows == 3
MaxWindow == 2

Days == 1..MaxDate
NaT == <<>>
NaN == <<>>

\* the file at the output path: absent, left by an earlier run, or written
\* by this run
NoOutput == [state |-> "absent", rows |-> <<>>]

PreviousOutput == [state |-> "previous", rows |-> <<>>]

\* a path that is None: no file
NoFile == [given |-> FALSE, columns |-> {}, rows |-> <<>>]

A == <<"a">>
B == <<"b">>
Ids == {A, B}

(***************************************************************************)
(* Helpers on sequences and sets                                           *)
(***************************************************************************)
Range(s) == {s[i] : i \in 1..Len(s)}

SetMax(S) == CHOOSE x \in S : \A y \in S : y <= x

SetMin(S) == CHOOSE x \in S : \A y \in S : x <= y

RECURSIVE AscSeq(_)
\* the elements of a finite set of integers in ascending order
AscSeq(S) == IF S = {} THEN <<>> ELSE <<SetMin(S)>> \o AscSeq(S \ {SetMin(S)})

Front(s) == SubSeq(s, 1, Len(s) - 1)

Last(s) == s[Len(s)]

RECURSIVE Reverse(_)
Reverse(s) == IF s = <<>> THEN <<>> ELSE <<Last(s)>> \o Reverse(Front(s))

(***************************************************************************)
(* Strings: str.strip() and the order of str values                        *)
(***************************************************************************)
Alphabet == <<" ", "a", "b", "n">>

CharRank(c) == CHOOSE i \in 1..Len(Alphabet) : Alphabet[i] = c

\* Series.astype(str): a missing cell, <<>>, becomes the text "nan"
astype_str(cell) == IF cell = <<>> THEN <<"n", "a", "n">> ELSE cell

RECURSIVE LStrip(_)
LStrip(s) == IF s # <<>> /\ s[1] = " " THEN LStrip(Tail(s)) ELSE s

RECURSIVE RStrip(_)
RStrip(s) == IF s # <<>> /\ Last(s) = " " THEN RStrip(Front(s)) ELSE s

\* Series.str.strip()
Strip(s) == RStrip(LStrip(s))

RECURSIVE StrLess(_, _)
\* s < t for str values (lexicographic by code point)
StrLess(s, t) ==
    IF t = <<>> THEN FALSE
    ELSE IF s = <<>> THEN TRUE
    ELSE IF s[1] = t[1] THEN StrLess(Tail(s), Tail(t))
    ELSE CharRank(s[1]) < CharRank(t[1])

(***************************************************************************)
(* _parse_date_col: to_datetime(errors="coerce") then dt.normalize()       *)
(***************************************************************************)
parse_date_col(raw) == IF raw = <<>> THEN NaT ELSE <<raw[1]>>

(***************************************************************************)
(* sort_values([id_col, date_col], kind="mergesort"): a stable sort        *)
(***************************************************************************)
KeyLess(r1, r2) ==
    \/ StrLess(r1.id, r2.id)
    \/ r1.id = r2.id /\ r1.date < r2.date

RECURSIVE InsertStable(_, _)
\* r goes after every row whose key is not greater than its own
InsertStable(r, s) ==
    IF s = <<>> THEN <<r>>
    ELSE IF KeyLess(r, Last(s)) THEN InsertStable(r, Front(s)) \o <<Last(s)>>
    ELSE s \o <<r>>

\* variant: the table is left in the order of the input
sort_values_input_order(t) == t

RECURSIVE sort_values(_)
sort_values(t) ==
    IF t = <<>> THEN <<>> ELSE InsertStable(Last(t), sort_values(Front(t)))

(***************************************************************************)
(* _episode_starts                                                         *)
(***************************************************************************)
\* mask = np.r_[True, diffs > gap_days]
EpisodeMask(d, gap) ==
    [i \in 1..Len(d) |-> IF i = 1 THEN TRUE ELSE d[i] - d[i - 1] > gap]

RECURSIVE Masked(_, _)
\* dates[mask]
Masked(d, mask) ==
    IF d = <<>> THEN <<>>
    ELSE Masked(Front(d), Front(mask)) \o (IF Last(mask) THEN <<Last(d)>> ELSE <<>>)

RECURSIVE LastKept(_, _)
\* variant: a date is compared with the most recently kept date
LastKept(d, gap) ==
    IF Len(d) <= 1 THEN d
    ELSE LET kept == LastKept(Front(d), gap)
         IN  IF Last(d) - Last(kept) > gap THEN kept \o <<Last(d)>> ELSE kept

\* variant of _episode_starts: greedy merge into the last kept episode
episode_starts_last_kept(d, gap) ==
    IF Len(d) = 0 THEN d
    ELSE IF gap < 0 THEN "ValueError"
    ELSE IF gap = 0 THEN d
    ELSE LastKept(d, gap)

\* variant of _episode_starts: the gap counts the days strictly between two
\* dates, and gap_days = 0 takes no shortcut
episode_starts_days_between(d, gap) ==
    IF Len(d) = 0 THEN d
    ELSE IF gap < 0 THEN "ValueError"
    ELSE Masked(d, [i \in 1..Len(d) |->
                      IF i = 1 THEN TRUE ELSE d[i] - d[i - 1] - 1 > gap])

\* variant of _episode_starts: a date is compared with the first date
episode_starts_from_first(d, gap) ==
    IF Len(d) = 0 THEN d
    ELSE IF gap < 0 THEN "ValueError"
    ELSE IF gap = 0 THEN d
    ELSE Masked(d, [i \in 1..Len(d) |-> IF i = 1 THEN TRUE ELSE d[i] - d[1] > gap])

\* the result of _episode_starts, or the string "ValueError" when it raises
episode_starts(d, gap) ==
    IF Len(d) = 0 THEN d
    ELSE IF gap < 0 THEN "ValueError"
    ELSE IF gap = 0 THEN d
    ELSE Masked(d, EpisodeMask(d, gap))

(***************************************************************************)
(* build_survival_labels                                                   *)
(***************************************************************************)
\* variant: the ids are not trimmed
ParsedDaily_untrimmed(t) ==
    [i \in 1..Len(t) |->
        [id |-> astype_str(t[i].id), date |-> parse_date_col(t[i].date)]]

\* lines 108-109: ids trimmed, dates parsed
ParsedDaily(t) ==
    [i \in 1..Len(t) |->
        [id |-> Strip(astype_str(t[i].id)), date |-> parse_date_col(t[i].date)]]

\* variant: the error tells that dates failed, not how many
NBad_flag(t) == IF \E i \in 1..Len(t) : t[i].date = NaT THEN 1 ELSE 0

\* line 111: the number of rows whose date did not parse
NBad(t) == Cardinality({i \in 1..Len(t) : t[i].date = NaT})

\* line 114: df.duplicated([id_col, date_col]).sum(): every row that repeats
\* the key of an earlier row
NDup(t) ==
    Cardinality({i \in 1..Len(t) :
        \E j \in 1..(i - 1) : t[j].id = t[i].id /\ t[j].date = t[i].date})

\* datetime64[D] values of a table whose dates all parsed
DayRows(t) == [i \in 1..Len(t) |-> [id |-> t[i].id, date |-> t[i].date[1]]]

\* lines 126-128: the event table, ids trimmed, dates parsed, NaT rows and
\* repeated (player_id, date) pairs dropped; as a set of <<player_id, day>>
CleanEvents(ev) ==
    {<<Strip(astype_str(ev[i].player_id)), parse_date_col(ev[i].date)[1]>> :
        i \in {k \in 1..Len(ev) : parse_date_col(ev[k].date) # NaT}}

\* variant: every player is censored at the last date of the whole table
Censor_whole_table(t) ==
    [p \in {t[i].id : i \in 1..Len(t)} |-> SetMax({t[i].date : i \in 1..Len(t)})]

\* line 131: censor = df.groupby(id_col)[date_col].max()
Censor(t) ==
    [p \in {t[i].id : i \in 1..Len(t)} |->
        SetMax({t[i].date : i \in {k \in 1..Len(t) : t[k].id = p}})]

\* variant: events after the censor date are kept
ObservableEvents_no_censor(ev, t) ==
    {e \in CleanEvents(ev) : e[1] \in DOMAIN Censor(t)}

\* lines 134-136: events of players without daily rows, and events after the
\* player's censor date, are dropped
ObservableEvents(ev, t) ==
    {e \in CleanEvents(ev) :
        e[1] \in DOMAIN Censor(t) /\ e[2] <= Censor(t)[e[1]]}

\* line 141: the sorted unique event dates of one player
PlayerEventDates(evs, p) == AscSeq({e[2] : e \in {x \in evs : x[1] = p}})

\* lines 139-142: event_map
EventMap(evs, gap) ==
    [p \in {e[1] : e \in evs} |-> episode_starts(PlayerEventDates(evs, p), gap)]

\* variant: side is ignored, always "right"
searchsorted_right_only(ev, d, side) ==
    Cardinality({k \in 1..Len(ev) : ev[k] <= d})

\* variant: side is ignored, always "left"
searchsorted_left_only(ev, d, side) ==
    Cardinality({k \in 1..Len(ev) : ev[k] < d})

\* variant: the two sides are exchanged
searchsorted_sides_exchanged(ev, d, side) ==
    IF side = "left"
    THEN Cardinality({k \in 1..Len(ev) : ev[k] <= d})
    ELSE Cardinality({k \in 1..Len(ev) : ev[k] < d})

\* np.searchsorted(ev, d, side): the 0-based insertion index in the sorted ev
searchsorted(ev, d, side) ==
    IF side = "left"
    THEN Cardinality({k \in 1..Len(ev) : ev[k] < d})
    ELSE Cardinality({k \in 1..Len(ev) : ev[k] <= d})

\* lines 150-152: the slice [s, e) of row i (1-based, inclusive here), cut
\* where the player of consecutive rows changes
SliceStart(t, i) ==
    SetMax({j \in 1..i : j = 1 \/ t[j].id # t[j - 1].id})

SliceEnd(t, i) ==
    SetMin({j \in i..Len(t) : j = Len(t) \/ t[j + 1].id # t[j].id})

\* variant: the censor date is the last date of the whole table
SliceCensor_global(t, i) ==
    SetMax({t[j].date : j \in 1..Len(t)})

\* line 159: censor_date = d.max() over the slice of row i
SliceCensor(t, i) ==
    SetMax({t[j].date : j \in SliceStart(t, i)..SliceEnd(t, i)})

\* lines 157-178 for row i: the labels (T, E)
LabelRow(t, emap, same_day, i) ==
    LET pid    == t[i].id
        d      == t[i].date
        censor == SliceCensor(t, i)
        ev     == IF pid \in DOMAIN emap THEN emap[pid] ELSE <<>>
        side   == IF same_day THEN "left" ELSE "right"
        idx    == searchsorted(ev, d, side)
        has    == idx < Len(ev)
    IN  IF Len(ev) = 0
        THEN [id |-> pid, date |-> d, T |-> censor - d, E |-> 0]
        ELSE [id |-> pid, date |-> d,
              T |-> IF has THEN ev[idx + 1] - d ELSE censor - d,
              E |-> IF has THEN 1 ELSE 0]

Labelled(t, emap, same_day) ==
    [i \in 1..Len(t) |-> LabelRow(t, emap, same_day, i)]

(***************************************************************************)
(* Inputs of build_survival_labels                                         *)
(***************************************************************************)
Keys == Ids \X Days

\* the id of a key as the daily file writes it: player b with a leading blank
DailyId(p) == IF p = B THEN <<" ">> \o p ELSE p

RawRow(k) == [id |-> DailyId(k[1]), date |-> <<k[2]>>]

\* the keys of S in ascending order of rank, a function on S
KeySeq(S, rank) ==
    LET ranks == AscSeq({rank[k] : k \in S})
    IN  [i \in 1..Len(ranks) |-> CHOOSE k \in S : rank[k] = ranks[i]]

\* rank of a key in (id, date) order, for one-character ids
ByIdDate(k) == CharRank(k[1][1]) * (MaxDate + 1) + k[2]

\* rank of a key in (date, id) order
ByDateId(k) == k[2] * (Len(Alphabet) + 1) + CharRank(k[1][1])

\* the keys of S player by player, each in date order
PlayerByPlayer(S) == KeySeq(S, [k \in S |-> ByIdDate(k)])

\* the keys of S day by day, the players of a day in id order
DayByDay(S) == KeySeq(S, [k \in S |-> ByDateId(k)])

TableOf(ks) == [i \in 1..Len(ks) |-> RawRow(ks[i])]

\* daily tables of at most MaxRows rows with one row per key, recorded day
\* by day or latest first
DailyTables ==
    UNION {{TableOf(DayByDay(S)),
            TableOf(Reverse(PlayerByPlayer(S)))} :
              S \in {X \in SUBSET Keys : Cardinality(X) <= MaxRows}}

\* the id of a key as the event files write it: player b with a trailing blank
EventId(p) == IF p = B THEN p \o <<" ">> ELSE p

\* an event row: a timestamp at 9 o'clock of day k[2]
EventRow(k) == [player_id |-> EventId(k[1]), date |-> <<k[2], 9>>]

\* event tables as load_event_dates returns them: sorted, no repeated pair
EventTables ==
    {[i \in 1..Cardinality(S) |-> EventRow(PlayerByPlayer(S)[i])] :
        S \in {X \in SUBSET Keys : Cardinality(X) <= MaxEvents}}

(***************************************************************************)
(* The run of build_survival_labels                                        *)
(***************************************************************************)
Init ==
    /\ prog = "build_survival_labels"
    /\ pc = "start"
    /\ err = ""
    /\ err_count = 0
    /\ exclude_cols = {"player_id", "date", "source_file"}
    /\ stored = {}
    /\ dirs = {}
    /\ event_source = "injury"
    /\ injury = NoFile
    /\ illness = NoFile
    /\ output_file = NoOutput
    /\ daily \in DailyTables
    /\ events_df \in EventTables
    /\ gap_days \in -1..MaxGap
    /\ include_same_day \in BOOLEAN
    /\ window = 7
    /\ min_periods = 1
    /\ stats = {"mean", "max", "std"}
    /\ df = <<>>
    /\ event_map = <<>>
    /\ out = <<>>
    /\ dates = <<>>
    /\ episodes = <<>>

\* lines 107-121
NormalizeDaily ==
    /\ prog \in {"build_survival_labels", "build_survival_labels.py"}
    /\ pc = "start"
    /\ LET p == ParsedDaily(daily)
       IN  IF NBad(p) # 0
           THEN /\ pc' = "error"
                /\ err' = "UnparsableDate"
                /\ err_count' = NBad(p)
                /\ df' = df
           ELSE IF NDup(p) # 0
           THEN /\ pc' = "error"
                /\ err' = "DuplicateKey"
                /\ err_count' = NDup(p)
                /\ df' = df
           ELSE /\ pc' = "normalized"
                /\ err' = err
                /\ err_count' = err_count
                /\ df' = sort_values(DayRows(p))
    /\ UNCHANGED <<prog, exclude_cols, stored, dirs, event_source, injury, illness, output_file, daily, events_df, gap_days, include_same_day, window,
                   min_periods, stats, event_map, out, dates, episodes>>

\* lines 123-142
BuildEventMap ==
    /\ pc = "normalized"
    /\ LET m == EventMap(ObservableEvents(events_df, df), gap_days)
       IN  IF \E p \in DOMAIN m : m[p] = "ValueError"
           THEN /\ pc' = "error"
                /\ err' = "ValueError"
                /\ event_map' = event_map
           ELSE /\ pc' = "mapped"
                /\ err' = err
                /\ event_map' = m
    /\ UNCHANGED <<prog, exclude_cols, stored, dirs, err_count, event_source, injury, illness, output_file, daily, events_df, gap_days, include_same_day, window,
                   min_periods, stats, df, out, dates, episodes>>

\* lines 144-182
AssignLabels ==
    /\ pc = "mapped"
    /\ IF Len(df) = 0
       THEN /\ pc' = "error"
            /\ err' = "IndexError"
            /\ out' = out
       ELSE /\ pc' = "done"
            /\ err' = err
            /\ out' = Labelled(df, event_map, include_same_day)
    /\ UNCHANGED <<prog, exclude_cols, stored, dirs, err_count, event_source, injury, illness, output_file, daily, events_df, gap_days, include_same_day, window,
                   min_periods, stats, df, event_map, dates, episodes>>

Next == NormalizeDaily \/ BuildEventMap \/ AssignLabels

Spec == Init /\ [][Next]_vars
(***************************************************************************)
(* _episode_starts on its own: sorted, duplicate-free dates                *)
(***************************************************************************)
AscendingSeqs ==
    {AscSeq(S) : S \in {X \in SUBSET (1..MaxEpisodeDate) : Cardinality(X) <= MaxEpisodeLen}}

InitEpisodes ==
    /\ prog = "episode_starts"
    /\ pc = "start"
    /\ err = ""
    /\ err_count = 0
    /\ exclude_cols = {"player_id", "date", "source_file"}
    /\ stored = {}
    /\ dirs = {}
    /\ event_source = "injury"
    /\ injury = NoFile
    /\ illness = NoFile
    /\ output_file = NoOutput
    /\ daily = <<>>
    /\ events_df = <<>>
    /\ gap_days \in -1..MaxEpisodeGap
    /\ include_same_day = FALSE
    /\ window = 7
    /\ min_periods = 1
    /\ stats = {"mean", "max", "std"}
    /\ df = <<>>
    /\ event_map = <<>>
    /\ out = <<>>
    /\ dates \in AscendingSeqs
    /\ episodes = <<>>

\* lines 28-42
CallEpisodeStarts ==
    /\ prog = "episode_starts"
    /\ pc = "start"
    /\ LET r == episode_starts(dates, gap_days)
       IN  IF r = "ValueError"
           THEN pc' = "error" /\ err' = "ValueError" /\ episodes' = episodes
           ELSE pc' = "done" /\ err' = err /\ episodes' = r
    /\ UNCHANGED <<prog, exclude_cols, stored, dirs, err_count, event_source, injury, illness, output_file, daily, events_df, gap_days, include_same_day, window,
                   min_periods, stats, df, event_map, out, dates>>

NextEpisodes == CallEpisodeStarts

SpecEpisodes == InitEpisodes /\ [][NextEpisodes]_vars

(***************************************************************************)
(* build_rolling_features                                                  *)
(*                                                                         *)
(* The table has one feature column besides the id and the date, "x".      *)
(* Numbers are exact fractions <<num, den>> in lowest terms, den > 0.      *)
(***************************************************************************)
RECURSIVE GCD(_, _)
GCD(a, b) == IF b = 0 THEN a ELSE GCD(b, a % b)

Frac(n, d) == <<n \div GCD(n, d), d \div GCD(n, d)>>

ISqrt(n) == CHOOSE r \in 0..n : r * r <= n /\ (r + 1) * (r + 1) > n

IsSquare(n) == ISqrt(n) * ISqrt(n) = n

\* the square root of the fraction q: a fraction when there is one, and
\* <<num, den, 2>>, "the square root of num/den", when it is irrational
Sqrt(q) ==
    IF IsSquare(q[1]) /\ IsSquare(q[2])
    THEN <<ISqrt(q[1]), ISqrt(q[2])>>
    ELSE <<q[1], q[2], 2>>

RECURSIVE SumSeq(_)
SumSeq(s) == IF s = <<>> THEN 0 ELSE Last(s) + SumSeq(Front(s))

\* pd.to_numeric(errors="coerce") on one cell: a float, or NaN for a missing
\* cell and for a cell of text
to_numeric(cell) == IF Len(cell) # 1 THEN NaN ELSE <<cell[1], 1>>

\* the numerators of the observations (non-NaN cells) of a window; the
\* cells of the model hold whole numbers
Observations(w) ==
    LET obs == SelectSeq(w, LAMBDA c : c # NaN)
    IN  [k \in 1..Len(obs) |-> obs[k][1]]

\* variant: min_periods is compared with the rows of the window, missing
\* values included
roll_mean_count_rows(w, minp) ==
    LET x == Observations(w)
    IN  IF Len(w) < minp \/ Len(x) = 0 THEN NaN ELSE Frac(SumSeq(x), Len(x))

\* Rolling.mean() on one window
roll_mean(w, minp) ==
    LET x == Observations(w)
    IN  IF Len(x) < minp \/ Len(x) = 0 THEN NaN ELSE Frac(SumSeq(x), Len(x))

\* Rolling.max() on one window
roll_max(w, minp) ==
    LET x == Observations(w)
    IN  IF Len(x) < minp \/ Len(x) = 0 THEN NaN ELSE <<SetMax(Range(x)), 1>>

\* variant of Rolling.std: the sample standard deviation, ddof = 1
roll_std_ddof1(w, minp) ==
    LET x == Observations(w)
        n == Len(x)
        sq == [k \in 1..n |-> x[k] * x[k]]
    IN  IF n < minp \/ n <= 1 THEN NaN
        ELSE Sqrt(Frac(n * SumSeq(sq) - SumSeq(x) * SumSeq(x), n * (n - 1)))

\* Rolling.std(ddof=0) on one window: the population standard deviation
roll_std(w, minp) ==
    LET x == Observations(w)
        n == Len(x)
        sq == [k \in 1..n |-> x[k] * x[k]]
    IN  IF n < minp \/ n = 0 THEN NaN
        ELSE Sqrt(Frac(n * SumSeq(sq) - SumSeq(x) * SumSeq(x), n * n))

Allowed == {"mean", "max", "std"}

Statistic(stat, w, minp) ==
    IF stat = "mean" THEN roll_mean(w, minp)
    ELSE IF stat = "max" THEN roll_max(w, minp)
    ELSE roll_std(w, minp)

\* variant: the rolling window runs over the whole table, not per player
GroupRows_ungrouped(t, p) == [k \in 1..Len(t) |-> k]

\* df.groupby(id_col): the row numbers of player p, in table order
GroupRows(t, p) == AscSeq({i \in 1..Len(t) : t[i].id = p})

\* .rolling(window=window): the cells of the trailing window of row i, the
\* last `w` rows of its group up to row i
WindowCells(t, i, w) ==
    LET g   == GroupRows(t, t[i].id)
        pos == CHOOSE k \in 1..Len(g) : g[k] = i
        lo  == IF pos - w + 1 > 1 THEN pos - w + 1 ELSE 1
    IN  [k \in 1..(pos - lo + 1) |-> t[g[lo + k - 1]].x]

\* the name of a rolled column, f"roll{window}_{stat}_" + column
RollColumn(w, stat, col) == <<"roll", w, stat, col>>

\* lines 62-96: the table with the rolled columns added
Rolled(t, w, minp, sts) ==
    [i \in 1..Len(t) |->
        [id |-> t[i].id, date |-> t[i].date, x |-> t[i].x,
         rolled |-> [c \in {RollColumn(w, s, "x") : s \in sts \cap Allowed} |->
                        Statistic(c[3], WindowCells(t, i, w), minp)]]]

\* variant: dropna() without subset, rows with any missing cell are dropped
KeepParsed_dropna_any(t) == SelectSeq(t, LAMBDA r : r.date # NaT /\ r.x # <<>>)

\* line 50: dropna(subset=[id_col, date_col]); ids are str values, never NaN
KeepParsed(t) == SelectSeq(t, LAMBDA r : r.date # NaT)

\* lines 48-49
ParsedFeatures(t) ==
    [i \in 1..Len(t) |->
        [id |-> Strip(astype_str(t[i].id)), date |-> parse_date_col(t[i].date),
         x |-> t[i].x]]

\* the rows with their datetime64 day
FeatureDayRows(t) ==
    [i \in 1..Len(t) |-> [id |-> t[i].id, date |-> t[i].date[1], x |-> t[i].x]]

\* lines 55-56
Coerced(t) ==
    [i \in 1..Len(t) |-> [id |-> t[i].id, date |-> t[i].date, x |-> to_numeric(t[i].x)]]

(***************************************************************************)
(* Inputs of build_rolling_features                                        *)
(***************************************************************************)
FeatureValues == {1, 3}

Cells == {<<>>} \cup {<<v>> : v \in FeatureValues}

\* the tables with the keys ks in that order and any cells
FeatureTablesOf(ks) ==
    {[i \in 1..Len(ks) |->
        [id |-> DailyId(ks[i][1]), date |-> <<ks[i][2]>>, x |-> xs[i]]] :
        xs \in [1..Len(ks) -> Cells]}

\* a row whose date does not parse
BadDateRow == [id |-> A, date |-> <<>>, x |-> <<1>>]

\* a row whose id is missing
MissingIdRow == [id |-> <<>>, date |-> <<1>>, x |-> <<3>>]

\* feature tables of at most MaxRows rows: recorded latest first, or day by
\* day; the latter also after a row whose date does not parse or whose id
\* is missing
FeatureTables ==
    LET KeySets == {X \in SUBSET Keys : Cardinality(X) <= MaxRows}
        by_day  == UNION {FeatureTablesOf(DayByDay(S)) : S \in KeySets}
        latest  == UNION {FeatureTablesOf(Reverse(PlayerByPlayer(S))) : S \in KeySets}
    IN  by_day \cup latest
          \cup {<<BadDateRow>> \o t : t \in by_day}
          \cup {<<MissingIdRow>> \o t : t \in by_day}

(***************************************************************************)
(* The run of build_rolling_features                                       *)
(***************************************************************************)
InitRolling ==
    /\ prog = "build_rolling_features"
    /\ pc = "start"
    /\ err = ""
    /\ err_count = 0
    /\ exclude_cols = {"player_id", "date", "source_file"}
    /\ stored = {}
    /\ dirs = {}
    /\ event_source = "injury"
    /\ injury = NoFile
    /\ illness = NoFile
    /\ output_file = NoOutput
    /\ daily \in FeatureTables
    /\ events_df = <<>>
    /\ gap_days = 0
    /\ include_same_day = FALSE
    /\ window \in 1..MaxWindow
    /\ min_periods \in 1..MaxWindow
    /\ stats = {"mean", "max", "std"}
    /\ df = <<>>
    /\ event_map = <<>>
    /\ out = <<>>
    /\ dates = <<>>
    /\ episodes = <<>>

\* lines 38-52
NormalizeFeatures ==
    /\ prog \in {"build_rolling_features", "build_rolling_features.py"}
    /\ pc = "start"
    /\ IF window <= 0 \/ min_periods <= 0
       THEN /\ pc' = "error"
            /\ err' = "ValueError"
            /\ df' = df
       ELSE /\ pc' = "sorted"
            /\ err' = err
            /\ df' = sort_values(FeatureDayRows(KeepParsed(ParsedFeatures(daily))))
    /\ UNCHANGED <<prog, exclude_cols, stored, dirs, err_count, event_source, injury, illness, output_file, daily, events_df, gap_days, include_same_day, window,
                   min_periods, stats, event_map, out, dates, episodes>>

\* lines 54-60; the feature column "x" is never excluded, and is numeric
\* after the coercion
CoerceFeatures ==
    /\ pc = "sorted"
    /\ pc' = "coerced"
    /\ df' = Coerced(df)
    /\ UNCHANGED <<prog, exclude_cols, stored, dirs, err_count, event_source, injury, illness, output_file, err, daily, events_df, gap_days, include_same_day, window,
                   min_periods, stats, event_map, out, dates, episodes>>

\* lines 62-96; .rolling() raises ValueError when min_periods > window
RollFeatures ==
    /\ pc = "coerced"
    /\ IF stats \cap Allowed = {}
       THEN /\ pc' = "error"
            /\ err' = "ValueError"
            /\ out' = out
       ELSE IF min_periods > window
       THEN /\ pc' = "error"
            /\ err' = "ValueError"
            /\ out' = out
       ELSE /\ pc' = "done"
            /\ err' = err
            /\ out' = Rolled(df, window, min_periods, stats)
    /\ UNCHANGED <<prog, exclude_cols, stored, dirs, err_count, event_source, injury, illness, output_file, daily, events_df, gap_days, include_same_day, window,
                   min_periods, stats, df, event_map, dates, episodes>>

NextRolling == NormalizeFeatures \/ CoerceFeatures \/ RollFeatures

SpecRolling == InitRolling /\ [][NextRolling]_vars

(***************************************************************************)
(* Either builder                                                          *)
(***************************************************************************)
InitBuilders == Init \/ InitRolling

NextBuilders == Next \/ NextRolling

SpecBuilders == InitBuilders /\ [][NextBuilders]_vars

(***************************************************************************)
(* Properties of build_survival_labels, stated on the inputs of the run    *)
(***************************************************************************)
\* the entity of an input row
EntityOf(r) == Strip(astype_str(r.id))

\* the calendar days on which entity p was observed in the daily input
ObservedDays(p) ==
    {parse_date_col(daily[i].date)[1] :
        i \in {k \in 1..Len(daily) : EntityOf(daily[k]) = p}}

\* the last observed day of entity p
CensorDate(p) == SetMax(ObservedDays(p))

\* the days of the events of entity p in the event input
EventDays(p) ==
    {parse_date_col(events_df[i].date)[1] :
        i \in {k \in 1..Len(events_df) :
                 /\ Strip(astype_str(events_df[k].player_id)) = p
                 /\ parse_date_col(events_df[k].date) # NaT}}

\* the days of the events of entity p on or before day h
EventDaysUpTo(p, h) == {e \in EventDays(p) : e <= h}

\* the episode starts of a set of event days: the first day, and every day
\* more than gap days after the event day just before it
StartsOf(D, gap) ==
    {e \in D : \A prev \in D :
        (prev < e /\ \A x \in D : x < e => x <= prev) => e - prev > gap}

\* the episode starts of entity p within its censor horizon
EpisodeStartsOf(p) == StartsOf(EventDaysUpTo(p, CensorDate(p)), gap_days)

\* the episode starts that match a row dated d
Matching(p, d) ==
    {s \in EpisodeStartsOf(p) : IF include_same_day THEN s >= d ELSE s > d}

\* C1: every row of an entity with at least one episode start is matched to
\* the first episode start >= d (same day included) or > d (excluded); a
\* matched row has E = 1 and T = match - d, an unmatched row has E = 0 and
\* T = censor_date - d.
C1_MatchingRule ==
    pc = "done" =>
        \A i \in 1..Len(out) :
            LET p == out[i].id
                d == out[i].date
            IN  EpisodeStartsOf(p) # {} =>
                    IF Matching(p, d) # {}
                    THEN out[i].E = 1 /\ out[i].T = SetMin(Matching(p, d)) - d
                    ELSE out[i].E = 0 /\ out[i].T = CensorDate(p) - d

\* a run where one entity has two episode starts, a row matched to the
\* second one, and a row after both
C1_Witness ==
    /\ pc = "done"
    /\ \E i, j \in 1..Len(out) :
        /\ out[i].id = out[j].id
        /\ Cardinality(EpisodeStartsOf(out[i].id)) >= 2
        /\ out[i].E = 1
        /\ out[i].date + out[i].T = SetMax(EpisodeStartsOf(out[i].id))
        /\ out[j].E = 0

\* C2: no row is labelled by an event after the censor date of its entity:
\* a row with E = 1 has d + T on an event day of its entity that is not
\* after the entity's last observed day.
C2_CensorHorizon ==
    pc = "done" =>
        \A i \in 1..Len(out) :
            out[i].E = 1 =>
                /\ out[i].date + out[i].T <= CensorDate(out[i].id)
                /\ out[i].date + out[i].T \in EventDays(out[i].id)

\* a run where an entity has an event after its last observed day and an
\* event within it that labels a row
C2_Witness ==
    /\ pc = "done"
    /\ \E i \in 1..Len(out) :
        /\ out[i].E = 1
        /\ \E e \in EventDays(out[i].id) : e > CensorDate(out[i].id)

\* C3: E is 0 or 1, T is an integer >= 0, and a row with E = 1 has T >= 1
\* when the same day is excluded.
C3_LabelRange ==
    pc = "done" =>
        \A i \in 1..Len(out) :
            /\ out[i].E \in {0, 1}
            /\ out[i].T \in Nat
            /\ (out[i].E = 1 /\ ~include_same_day) => out[i].T >= 1

\* a run excluding the same day where a row dated on an event day is
\* labelled by a later event
C3_Witness ==
    /\ pc = "done"
    /\ ~include_same_day
    /\ \E i \in 1..Len(out) :
        /\ out[i].date \in EventDays(out[i].id)
        /\ out[i].E = 1
        /\ out[i].T = 1

\* C6: an entity without any event on or before its censor date has E = 0
\* and T = censor_date - date on every row, and T = 0 on its last row.
C6_NoEvents ==
    pc = "done" =>
        \A i \in 1..Len(out) :
            LET p == out[i].id
            IN  EventDaysUpTo(p, CensorDate(p)) = {} =>
                    /\ out[i].E = 0
                    /\ out[i].T = CensorDate(p) - out[i].date
                    /\ (out[i].date = CensorDate(p) => out[i].T = 0)

\* a run where an entity whose only event is after its censor date has a
\* row before its last one, next to an entity that has an observable event
C6_Witness ==
    /\ pc = "done"
    /\ \E i, j \in 1..Len(out) :
        /\ EventDays(out[i].id) # {}
        /\ EventDaysUpTo(out[i].id, CensorDate(out[i].id)) = {}
        /\ out[i].T > 0
        /\ out[j].E = 1
        /\ CensorDate(out[j].id) > CensorDate(out[i].id)

(***************************************************************************)
(* Properties of _episode_starts                                           *)
(***************************************************************************)
IsAscending(s) == \A i \in 1..(Len(s) - 1) : s[i] < s[i + 1]

\* C4: the result is d_0 and every d_i with d_i - d_(i-1) > gap_days, in
\* ascending order: the first date of each maximal run of dates whose
\* consecutive distances are <= gap_days.
C4_CompressionRule ==
    pc = "done" =>
        /\ IsAscending(episodes)
        /\ Range(episodes) =
             {dates[i] : i \in {k \in 1..Len(dates) :
                                  k = 1 \/ dates[k] - dates[k - 1] > gap_days}}

\* days 1, 2, 3, 10 with gap_days = 1 compress to 1, 10
C4_Witness ==
    /\ pc = "done"
    /\ dates = <<1, 2, 3, 10>>
    /\ gap_days = 1
    /\ episodes = <<1, 10>>

\* C5: with gap_days = 0 the result is the input sequence.
C5_GapZeroIdentity ==
    (pc = "done" /\ gap_days = 0) => episodes = dates

\* consecutive days with gap_days = 0 are all kept
C5_Witness ==
    /\ pc = "done"
    /\ gap_days = 0
    /\ dates = <<1, 2, 3, 4>>
    /\ episodes = dates

(***************************************************************************)
(* Properties of build_rolling_features                                    *)
(***************************************************************************)
\* the rows of the output that belong to the trailing span of row i: the
\* rows of the same entity at or before row i with fewer than `window` rows
\* of that entity from them to row i
Span(i) ==
    {j \in 1..i :
        /\ out[j].id = out[i].id
        /\ Cardinality({k \in j..i : out[k].id = out[i].id}) <= window}

\* the feature cells of the span of row i, oldest first
SpanCells(i) ==
    LET idx == AscSeq(Span(i))
    IN  [k \in 1..Len(idx) |-> out[idx[k]].x]

\* the number of non-missing values in the span of row i
SpanCount(i) == Cardinality({j \in Span(i) : out[j].x # NaN})

RolledValue(i, stat) == out[i].rolled[RollColumn(window, stat, "x")]

RollingDone == prog = "build_rolling_features" /\ pc = "done"

C8_RollingWindow ==
    RollingDone =>
        \A i \in 1..Len(out) :
            /\ \A j \in 1..(i - 1) :
                 out[j].id = out[i].id => out[j].date <= out[i].date
            /\ \A s \in stats \cap Allowed :
                 RolledValue(i, s) = Statistic(s, SpanCells(i), min_periods)

\* a run with window = 2 where an entity's first row follows a row of
\* another entity and keeps its own value as mean, and the entity's second
\* row averages its two rows
C8_Witness ==
    /\ RollingDone
    /\ "mean" \in stats
    /\ window = 2
    /\ \E i \in 2..(Len(out) - 1) :
        /\ out[i - 1].id # out[i].id
        /\ out[i + 1].id = out[i].id
        /\ out[i - 1].x = <<1, 1>>
        /\ out[i].x = <<3, 1>>
        /\ out[i + 1].x = <<1, 1>>
        /\ RolledValue(i, "mean") = <<3, 1>>
        /\ RolledValue(i + 1, "mean") = <<2, 1>>

\* window = 3, min_periods = 1 on the values 1..7 of one entity
ExampleTable == [i \in 1..7 |-> [id |-> A, date |-> i, x |-> <<i, 1>>]]

ExampleMeans ==
    [i \in 1..7 |-> Rolled(ExampleTable, 3, 1, {"mean"})[i].rolled[RollColumn(3, "mean", "x")]]

IdentityValue(s, x) == IF s = "std" THEN <<0, 1>> ELSE x

\* C10 as stated: with window = 1 and min_periods = 1, on every row the
\* mean and the max equal the feature value and the std is 0.
C10_AsStated ==
    (RollingDone /\ window = 1 /\ min_periods = 1) =>
        \A i \in 1..Len(out) : \A s \in stats \cap Allowed :
            RolledValue(i, s) = IdentityValue(s, out[i].x)

\* C10 amended: with window = 1 and min_periods = 1, on every row whose
\* feature value is present the mean and the max equal it and the std is
\* 0; on a row whose feature value is missing the three are missing.
C10_WindowOneIdentity ==
    (RollingDone /\ window = 1 /\ min_periods = 1) =>
        \A i \in 1..Len(out) : \A s \in stats \cap Allowed :
            IF out[i].x # NaN
            THEN RolledValue(i, s) = IdentityValue(s, out[i].x)
            ELSE RolledValue(i, s) = NaN

\* a run with window = 1 and min_periods = 1 over a present and a missing
\* feature value of the same entity
C10_Witness ==
    /\ RollingDone
    /\ stats = Allowed
    /\ window = 1
    /\ min_periods = 1
    /\ \E i, j \in 1..Len(out) :
        /\ out[i].id = out[j].id
        /\ out[i].x = NaN
        /\ RolledValue(i, "std") = NaN
        /\ out[j].x # NaN
        /\ RolledValue(j, "std") = <<0, 1>>
        /\ RolledValue(j, "mean") = out[j].x

(***************************************************************************)
(* build_rolling_features called with any configuration                    *)
(***************************************************************************)
MaxConfigRows == 2

\* the stats argument: a tuple of names, used only through `name in stats`
StatSelections ==
    {{"mean", "max", "std"}, {"std"}, {"mean", "min"}, {"min"}, {}}

\* the tables with the keys ks in that order and a value in every cell
PresentTablesOf(ks) ==
    {[i \in 1..Len(ks) |->
        [id |-> DailyId(ks[i][1]), date |-> <<ks[i][2]>>, x |-> <<xs[i]>>]] :
        xs \in [1..Len(ks) -> FeatureValues]}

\* tables of one to MaxConfigRows rows, recorded day by day or latest first
ConfigTables ==
    UNION {PresentTablesOf(DayByDay(S)) \cup PresentTablesOf(Reverse(PlayerByPlayer(S))) :
             S \in {X \in SUBSET Keys : X # {} /\ Cardinality(X) <= MaxConfigRows}}

InitRollingConfig ==
    /\ prog = "build_rolling_features"
    /\ pc = "start"
    /\ err = ""
    /\ err_count = 0
    /\ exclude_cols = {"player_id", "date", "source_file"}
    /\ stored = {}
    /\ dirs = {}
    /\ event_source = "injury"
    /\ injury = NoFile
    /\ illness = NoFile
    /\ output_file = NoOutput
    /\ daily \in ConfigTables
    /\ events_df = <<>>
    /\ gap_days = 0
    /\ include_same_day = FALSE
    /\ window \in 0..MaxWindow
    /\ min_periods \in 0..MaxWindow
    /\ stats \in StatSelections
    /\ df = <<>>
    /\ event_map = <<>>
    /\ out = <<>>
    /\ dates = <<>>
    /\ episodes = <<>>

SpecRollingConfig == InitRollingConfig /\ [][NextRolling]_vars

\* the rows of the daily input whose date parses, in input order, as
\* <<entity, day, feature cell>>
InputRows ==
    LET kept == SelectSeq(daily, LAMBDA r : parse_date_col(r.date) # NaT)
    IN  [i \in 1..Len(kept) |->
            <<EntityOf(kept[i]), parse_date_col(kept[i].date)[1], kept[i].x>>]

\* the rows of the output, as <<entity, day, feature cell>>
OutputRows ==
    [i \in 1..Len(out) |->
        <<out[i].id, out[i].date,
          IF out[i].x = NaN THEN <<>> ELSE <<out[i].x[1]>>>>]

\* s is in ascending (entity, day) order
RowsAscending(s) ==
    \A i \in 1..(Len(s) - 1) :
        \/ StrLess(s[i][1], s[i + 1][1])
        \/ s[i][1] = s[i + 1][1] /\ s[i][2] <= s[i + 1][2]

\* every output row carries exactly the columns roll{window}_{stat}_x of the
\* requested statistics among mean, max and std
RolledColumnsAdded ==
    \A i \in 1..Len(out) :
        DOMAIN out[i].rolled = {RollColumn(window, s, "x") : s \in stats \cap Allowed}

\* C11 as stated: the output has one column roll{window}_{stat}_{col} per
\* feature column and requested statistic, and its rows are in the order of
\* the rows of the input table, whatever that order is.
C11_AsStated ==
    RollingDone => (RolledColumnsAdded /\ OutputRows = InputRows)

\* C11 amended: the output has one column roll{window}_{stat}_{col} per
\* feature column and requested statistic; its rows are the input rows in
\* ascending (entity, day) order, which is the input order when the input is
\* already in that order.
C11_OutputShape ==
    RollingDone =>
        /\ RolledColumnsAdded
        /\ RowsAscending(OutputRows)
        /\ Len(OutputRows) = Len(InputRows)
        /\ Range(OutputRows) = Range(InputRows)
        /\ RowsAscending(InputRows) => OutputRows = InputRows

\* a run asked for std only, on a table recorded latest first: the two
\* output rows are in the opposite order and carry the one column
C11_Witness ==
    /\ RollingDone
    /\ stats = {"std"}
    /\ Len(out) = 2
    /\ OutputRows = Reverse(InputRows)
    /\ OutputRows # InputRows
    /\ DOMAIN out[2].rolled = {RollColumn(window, "std", "x")}

\* a configuration the builder is said to refuse
BadRollingConfig == window <= 0 \/ min_periods <= 0 \/ ~(stats \subseteq Allowed)

\* C12 as stated: a call with window <= 0, min_periods <= 0 or a statistic
\* name outside {mean, max, std} never computes or returns a table.
C12_AsStated ==
    (prog = "build_rolling_features" /\ BadRollingConfig) =>
        (pc # "done" /\ out = <<>>)

(***************************************************************************)
(* build_survival_labels on daily tables as a file may hold them: ids      *)
(* padded with blanks, dates with a time of day, dates that do not parse,  *)
(* repeated rows                                                           *)
(***************************************************************************)
MaxRawRows == 3

RawIds == {A, A \o <<" ">>, <<" ">> \o B}

RawDates == {<<>>, <<1>>, <<1, 9>>, <<2>>}

RawRows == {[id |-> i, date |-> d] : i \in RawIds, d \in RawDates}

RawDailyTables == UNION {[1..n -> RawRows] : n \in 1..MaxRawRows}

InitLabelsRaw ==
    /\ prog = "build_survival_labels"
    /\ pc = "start"
    /\ err = ""
    /\ err_count = 0
    /\ exclude_cols = {"player_id", "date", "source_file"}
    /\ stored = {}
    /\ dirs = {}
    /\ event_source = "injury"
    /\ injury = NoFile
    /\ illness = NoFile
    /\ output_file = NoOutput
    /\ daily \in RawDailyTables
    /\ events_df \in {<<>>, <<EventRow(<<A, 2>>)>>}
    /\ gap_days = 0
    /\ include_same_day = TRUE
    /\ window = 7
    /\ min_periods = 1
    /\ stats = {"mean", "max", "std"}
    /\ df = <<>>
    /\ event_map = <<>>
    /\ out = <<>>
    /\ dates = <<>>
    /\ episodes = <<>>

SpecLabelsRaw == InitLabelsRaw /\ [][Next]_vars

\* the date text of row r does not parse
Unparsable(r) == r.date = <<>>

\* rows i and j of the daily input are of the same entity and calendar day
SameKey(i, j) ==
    /\ EntityOf(daily[i]) = EntityOf(daily[j])
    /\ ~Unparsable(daily[i]) /\ ~Unparsable(daily[j])
    /\ daily[i].date[1] = daily[j].date[1]

\* the rows of the daily input that repeat the entity and day of an earlier row
RepeatedRows == {j \in 1..Len(daily) : \E i \in 1..(j - 1) : SameKey(i, j)}

UnparsableRows == {i \in 1..Len(daily) : Unparsable(daily[i])}

LabelsRun == prog = "build_survival_labels"

\* C13: when two rows of the daily table have the same trimmed id and the
\* same calendar day, build_survival_labels raises and returns no table; it
\* never sorts, merges or labels the rows, and (every date parsing) the
\* error reports the number of repeated rows.
C13_DuplicateKeyFatal ==
    (LabelsRun /\ RepeatedRows # {}) =>
        /\ pc \in {"start", "error"}
        /\ df = <<>> /\ out = <<>>
        /\ (pc = "error" /\ UnparsableRows = {}) =>
              (err = "DuplicateKey" /\ err_count = Cardinality(RepeatedRows))

\* a failed run on three rows of one entity and day, written with and
\* without a trailing blank and with and without a time of day: 2 repeats
C13_Witness ==
    /\ LabelsRun
    /\ pc = "error"
    /\ err = "DuplicateKey"
    /\ err_count = 2
    /\ \E i, j \in 1..Len(daily) :
        /\ SameKey(i, j)
        /\ daily[i].id # daily[j].id
        /\ daily[i].date # daily[j].date

\* C14: when a date of the daily table does not parse, build_survival_labels
\* raises an error carrying the number of such rows and returns no table.
C14_UnparsableDateFatal ==
    (LabelsRun /\ UnparsableRows # {}) =>
        /\ pc \in {"start", "error"}
        /\ df = <<>> /\ out = <<>>
        /\ pc = "error" =>
              (err = "UnparsableDate" /\ err_count = Cardinality(UnparsableRows))

\* a failed run on three rows, two of them with a date that does not parse
C14_Witness ==
    /\ LabelsRun
    /\ pc = "error"
    /\ err = "UnparsableDate"
    /\ err_count = 2
    /\ Len(daily) = 3

(***************************************************************************)
(* load_event_dates                                                        *)
(*                                                                         *)
(* A file is [given, columns, rows]: whether its path is given, the names  *)
(* of its columns, and its rows [player_id, date] of raw cells.            *)
(***************************************************************************)
id_col_events == "player_name"

date_col_events == "timestamp"

\* lines 57 and 70: the sources the selector includes
Selected(source) ==
    (IF source \in {"injury", "both"} THEN {"injury"} ELSE {})
        \cup (IF source \in {"illness", "both"} THEN {"illness"} ELSE {})

\* variant: only the id column is looked for
SourceFails_id_only(file) ==
    ~file.given \/ id_col_events \notin file.columns

\* lines 58-64 and 71-77: the path is None, or a configured column is absent
SourceFails(file) ==
    \/ ~file.given
    \/ id_col_events \notin file.columns
    \/ date_col_events \notin file.columns

\* lines 65-68 and 78-81: the date parsed, the rows with a missing id or an
\* unparsable date dropped
SourceFrame(file) ==
    LET parsed == [i \in 1..Len(file.rows) |->
                      [id |-> file.rows[i].player_id,
                       date |-> parse_date_col(file.rows[i].date)]]
    IN  SelectSeq(parsed, LAMBDA r : r.id # <<>> /\ r.date # NaT)

\* line 87: the ids as trimmed text
TrimIds(t) ==
    [i \in 1..Len(t) |-> [id |-> Strip(astype_str(t[i].id)), date |-> t[i].date[1]]]

\* variant: every row is kept
drop_duplicates_keep_all(t) == t

\* line 88: drop_duplicates(["player_id", "date"]) keeps the first row of
\* every pair
drop_duplicates(t) ==
    LET first == {i \in 1..Len(t) :
                    \A j \in 1..(i - 1) : t[j].id # t[i].id \/ t[j].date # t[i].date}
        idx   == AscSeq(first)
    IN  [k \in 1..Len(idx) |-> t[idx[k]]]

\* the files of the selected sources, injury first
SelectedFiles(source, inj, ill) ==
    (IF "injury" \in Selected(source) THEN <<inj>> ELSE <<>>)
        \o (IF "illness" \in Selected(source) THEN <<ill>> ELSE <<>>)

\* lines 58-64, 71-77 and 83-84: the call raises ValueError
load_event_dates_raises(source, inj, ill) ==
    LET files == SelectedFiles(source, inj, ill)
    IN  \/ \E k \in 1..Len(files) : SourceFails(files[k])
        \/ Len(files) = 0

\* lines 86-89: the table returned by a call that does not raise
load_event_dates(source, inj, ill) ==
    LET files  == SelectedFiles(source, inj, ill)
        frames == [k \in 1..Len(files) |-> SourceFrame(files[k])]
        events == IF Len(frames) = 2 THEN frames[1] \o frames[2] ELSE frames[1]
        sorted == sort_values(drop_duplicates(TrimIds(events)))
    IN  [i \in 1..Len(sorted) |->
            [player_id |-> sorted[i].id, date |-> <<sorted[i].date>>]]

(***************************************************************************)
(* Inputs of load_event_dates                                              *)
(***************************************************************************)
MaxEventRows == 2

\* the cells of an event file: ids with and without blanks, a missing id;
\* dates with and without a time of day, a date that does not parse
EventFileRows ==
    {[player_id |-> i, date |-> d] :
        i \in {A, A \o <<" ">>, <<" ">> \o B, <<>>},
        d \in {<<1>>, <<1, 9>>, <<2>>, <<>>}}

FileOf(rows) ==
    [given |-> TRUE, columns |-> {id_col_events, date_col_events}, rows |-> rows]

\* files without one of the configured columns
IncompleteFiles ==
    {[given |-> TRUE, columns |-> {c}, rows |-> <<>>] :
        c \in {id_col_events, date_col_events}}

InjuryFiles ==
    {FileOf(t) : t \in UNION {[1..n -> EventFileRows] : n \in 0..MaxEventRows}}
        \cup IncompleteFiles \cup {NoFile}

IllnessFiles ==
    {FileOf(t) : t \in UNION {[1..n -> EventFileRows] : n \in 0..1}}
        \cup IncompleteFiles \cup {NoFile}

EventSources == {"injury", "illness", "both", "all"}

InitLoadEvents ==
    /\ prog = "load_event_dates"
    /\ pc = "load"
    /\ err = ""
    /\ err_count = 0
    /\ exclude_cols = {"player_id", "date", "source_file"}
    /\ stored = {}
    /\ dirs = {}
    /\ event_source \in EventSources
    /\ injury \in InjuryFiles
    /\ illness \in IllnessFiles
    /\ output_file = NoOutput
    /\ daily = <<>>
    /\ events_df = <<>>
    /\ gap_days = 0
    /\ include_same_day = FALSE
    /\ window = 7
    /\ min_periods = 1
    /\ stats = {"mean", "max", "std"}
    /\ df = <<>>
    /\ event_map = <<>>
    /\ out = <<>>
    /\ dates = <<>>
    /\ episodes = <<>>

\* lines 56-89; in main (lines 269-278) build_survival_labels follows
LoadEventDates ==
    /\ pc = "load"
    /\ IF load_event_dates_raises(event_source, injury, illness)
       THEN pc' = "error" /\ err' = "ValueError" /\ events_df' = events_df
       ELSE /\ pc' = IF prog = "load_event_dates" THEN "done" ELSE "start"
            /\ err' = err
            /\ events_df' = load_event_dates(event_source, injury, illness)
    /\ UNCHANGED <<prog, exclude_cols, stored, dirs, err_count, event_source, injury, illness, output_file,
                   daily, gap_days, include_same_day, window, min_periods, stats,
                   df, event_map, out, dates, episodes>>

NextLoadEvents == LoadEventDates

SpecLoadEvents == InitLoadEvents /\ [][NextLoadEvents]_vars

(***************************************************************************)
(* Properties of load_event_dates, stated on the files of the call         *)
(***************************************************************************)
LoadRun == prog = "load_event_dates"

\* the file of a source name
FileOfSource(name) == IF name = "injury" THEN injury ELSE illness

\* the <<trimmed id, calendar day>> pairs the selected files report: the
\* rows with an id and a date that parses
ReportedPairs ==
    UNION {{<<Strip(r.player_id), r.date[1]>> :
              r \in {x \in Range(FileOfSource(n).rows) :
                       x.player_id # <<>> /\ x.date # <<>>}} :
           n \in Selected(event_source)}

\* the pair of row i of the returned table
EventPair(i) == <<events_df[i].player_id, events_df[i].date[1]>>

\* C15: the table load_event_dates returns holds trimmed ids and calendar
\* days, holds every reported (entity_id, date) pair exactly once, also
\* when both sources report it or the ids differ by blanks, and is in
\* ascending (entity_id, date) order.
C15_EventsNormalized ==
    (LoadRun /\ pc = "done") =>
        /\ \A i \in 1..Len(events_df) :
             /\ events_df[i].player_id = Strip(events_df[i].player_id)
             /\ Len(events_df[i].date) = 1
        /\ {EventPair(i) : i \in 1..Len(events_df)} = ReportedPairs
        /\ \A i \in 1..(Len(events_df) - 1) :
             \/ StrLess(events_df[i].player_id, events_df[i + 1].player_id)
             \/ /\ events_df[i].player_id = events_df[i + 1].player_id
                /\ events_df[i].date[1] < events_df[i + 1].date[1]

\* a call on both sources: the injury file reports b and then a, the illness
\* file reports the same day of a with a padded id and a time of day; the
\* table holds a once, before b
C15_Witness ==
    /\ LoadRun
    /\ pc = "done"
    /\ event_source = "both"
    /\ Len(injury.rows) = 2
    /\ Len(illness.rows) = 1
    /\ Strip(injury.rows[1].player_id) = B
    /\ injury.rows[2] = [player_id |-> A, date |-> <<1>>]
    /\ illness.rows[1] = [player_id |-> A \o <<" ">>, date |-> <<1, 9>>]
    /\ Len(events_df) = 2
    /\ events_df[1].player_id = A

\* a selected source without its id column or its date column
LacksColumn(name) ==
    /\ FileOfSource(name).given
    /\ ~({id_col_events, date_col_events} \subseteq FileOfSource(name).columns)

\* C16: load_event_dates raises, and returns no table, when a selected
\* source lacks the id column or the date column, and when event_source
\* selects no source.
C16_LoadFailures ==
    (LoadRun /\ (Selected(event_source) = {}
                   \/ \E n \in Selected(event_source) : LacksColumn(n))) =>
        /\ pc \in {"load", "error"}
        /\ events_df = <<>>
        /\ pc = "error" => err = "ValueError"

\* a failed call on both sources where the injury file has rows and the
\* illness file has no date column
C16_Witness ==
    /\ LoadRun
    /\ pc = "error"
    /\ event_source = "both"
    /\ Len(injury.rows) = MaxEventRows
    /\ illness.given
    /\ illness.columns = {id_col_events}

(***************************************************************************)
(* The scripts: main of build_survival_labels.py and main of               *)
(* build_rolling_features.py                                               *)
(***************************************************************************)
MaxScriptRows == 2

\* strftime("%Y-%m-%d") of a day
strftime(d) == <<"%Y-%m-%d", d>>

ScriptDailyTables == UNION {[1..n -> RawRows] : n \in 1..MaxScriptRows}

\* --event-source with the injury and the illness file; main passes None as
\* the path of a source that is not selected (lines 266-267)
ScriptEvents ==
    {<<"injury", FileOf(<<[player_id |-> A, date |-> <<2, 9>>]>>), NoFile>>,
     <<"both", FileOf(<<[player_id |-> A, date |-> <<2, 9>>]>>),
               [given |-> TRUE, columns |-> {id_col_events}, rows |-> <<>>]>>,
     <<"both", FileOf(<<[player_id |-> A, date |-> <<1>>]>>),
               FileOf(<<[player_id |-> A \o <<" ">>, date |-> <<2>>]>>)>>}

\* lines 260-264: the arguments parsed and the input read
InitLabelsScript ==
    /\ prog = "build_survival_labels.py"
    /\ pc = "load"
    /\ err = ""
    /\ err_count = 0
    /\ exclude_cols = {"player_id", "date", "source_file"}
    /\ stored = {}
    /\ dirs = {}
    /\ \E ev \in ScriptEvents :
        event_source = ev[1] /\ injury = ev[2] /\ illness = ev[3]
    /\ output_file \in {NoOutput, PreviousOutput}
    /\ daily \in ScriptDailyTables
    /\ events_df = <<>>
    /\ gap_days \in {-1, 1}
    /\ include_same_day = TRUE
    /\ window = 7
    /\ min_periods = 1
    /\ stats = {"mean", "max", "std"}
    /\ df = <<>>
    /\ event_map = <<>>
    /\ out = <<>>
    /\ dates = <<>>
    /\ episodes = <<>>

\* variant: the file is written once the daily table is normalized, before
\* the events are mapped and the labels assigned
WriteLabels_before_labels ==
    /\ prog = "build_survival_labels.py"
    /\ pc = "normalized"
    /\ output_file.state # "written"
    /\ output_file' =
         [state |-> "written",
          rows |-> [i \in 1..Len(df) |->
                      [id |-> df[i].id, date |-> strftime(df[i].date)]]]
    /\ UNCHANGED <<prog, exclude_cols, stored, dirs, pc, err, err_count, event_source, injury, illness, daily,
                   events_df, gap_days, include_same_day, window, min_periods,
                   stats, df, event_map, out, dates, episodes>>

\* lines 287-290: the dates formatted and the table written
WriteLabels ==
    /\ prog = "build_survival_labels.py"
    /\ pc = "done"
    /\ pc' = "written"
    /\ output_file' =
         [state |-> "written",
          rows |-> [i \in 1..Len(out) |->
                      [id |-> out[i].id, date |-> strftime(out[i].date),
                       T |-> out[i].T, E |-> out[i].E]]]
    /\ UNCHANGED <<prog, exclude_cols, stored, dirs, err, err_count, event_source, injury, illness, daily,
                   events_df, gap_days, include_same_day, window, min_periods,
                   stats, df, event_map, out, dates, episodes>>

\* s.strip().lower() on a name of the --stats text
strip_lower(name) ==
    CASE name = " std" -> "std"
      [] name = "MAX" -> "max"
      [] OTHER -> name

\* line 142: the names of the --stats text, the empty ones left out
SplitStats(text) == {strip_lower(text[i]) : i \in 1..Len(text)} \ {""}

\* the --stats text, split at the commas
StatTexts ==
    {<<"mean", "max", "std">>, <<"mean", " std">>, <<"MAX", "">>,
     <<"mean", "min">>, <<"">>}

\* lines 136-140: the arguments parsed and the input read; stats holds the
\* --stats text until it is split
InitRollingScript ==
    /\ prog = "build_rolling_features.py"
    /\ pc = "main"
    /\ err = ""
    /\ err_count = 0
    /\ exclude_cols = {"player_id", "date", "source_file"}
    /\ stored = {}
    /\ dirs = {}
    /\ event_source = "injury"
    /\ injury = NoFile
    /\ illness = NoFile
    /\ output_file \in {NoOutput, PreviousOutput}
    /\ daily \in ConfigTables
    /\ events_df = <<>>
    /\ gap_days = 0
    /\ include_same_day = FALSE
    /\ window \in 0..MaxWindow
    /\ min_periods \in 0..MaxWindow
    /\ stats \in StatTexts
    /\ df = <<>>
    /\ event_map = <<>>
    /\ out = <<>>
    /\ dates = <<>>
    /\ episodes = <<>>

\* lines 142-146: a name outside mean, max, std ends the run
ParseStats ==
    /\ prog = "build_rolling_features.py"
    /\ pc = "main"
    /\ IF SplitStats(stats) \subseteq Allowed
       THEN pc' = "start" /\ err' = err /\ stats' = SplitStats(stats)
       ELSE pc' = "error" /\ err' = "SystemExit" /\ stats' = stats
    /\ UNCHANGED <<prog, exclude_cols, stored, dirs, err_count, event_source, injury, illness, output_file,
                   daily, events_df, gap_days, include_same_day, window,
                   min_periods, df, event_map, out, dates, episodes>>

\* lines 160-163: the dates formatted and the table written
WriteRolling ==
    /\ prog = "build_rolling_features.py"
    /\ pc = "done"
    /\ pc' = "written"
    /\ output_file' =
         [state |-> "written",
          rows |-> [i \in 1..Len(out) |->
                      [id |-> out[i].id, date |-> strftime(out[i].date),
                       x |-> out[i].x, rolled |-> out[i].rolled]]]
    /\ UNCHANGED <<prog, exclude_cols, stored, dirs, err, err_count, event_source, injury, illness, daily,
                   events_df, gap_days, include_same_day, window, min_periods,
                   stats, df, event_map, out, dates, episodes>>

InitScripts == InitLabelsScript \/ InitRollingScript

NextScripts ==
    \/ LoadEventDates
    \/ NormalizeDaily
    \/ BuildEventMap
    \/ AssignLabels
    \/ WriteLabels
    \/ ParseStats
    \/ NormalizeFeatures
    \/ CoerceFeatures
    \/ RollFeatures
    \/ WriteRolling

SpecScripts == InitScripts /\ [][NextScripts]_vars

(***************************************************************************)
(* Properties of the scripts                                               *)
(***************************************************************************)
ScriptRun == prog \in {"build_survival_labels.py", "build_rolling_features.py"}

\* C17: in a run of either script the output file changes in one step only,
\* the write that follows the completed computation of a run without error;
\* in a run that has failed the file is as it was before the run.
C17_AllOrNothing ==
    /\ [](ScriptRun /\ pc = "error" => output_file \in {NoOutput, PreviousOutput})
    /\ [][output_file' # output_file =>
            (pc = "done" /\ err = "" /\ out # <<>> /\ pc' = "written")]_vars

\* a run of build_survival_labels.py that loaded the events and normalized
\* the daily table, then failed on gap_days < 0: the file of an earlier run
\* is untouched
C17_Witness ==
    /\ prog = "build_survival_labels.py"
    /\ pc = "error"
    /\ err = "ValueError"
    /\ events_df # <<>>
    /\ df # <<>>
    /\ output_file = PreviousOutput

(***************************************************************************)
(* The two compression rules                                               *)
(***************************************************************************)
RECURSIVE GreedyStarts(_, _)
\* the greedy rule: the first date, and every date more than gap days after
\* the most recently kept date
GreedyStarts(d, gap) ==
    IF Len(d) <= 1 THEN d
    ELSE LET kept == GreedyStarts(Front(d), gap)
         IN  IF Last(d) - Last(kept) > gap THEN kept \o <<Last(d)>> ELSE kept

\* C19 as stated: for ascending duplicate-free dates and gap_days >= 0 the
\* result of _episode_starts equals the result of the greedy rule.
C19_AsStated ==
    (pc = "done" /\ gap_days >= 0) => episodes = GreedyStarts(dates, gap_days)

\* C19 amended: for ascending duplicate-free dates and gap_days >= 0 every
\* date kept by _episode_starts is kept by the greedy rule, both keep the
\* first date, and with gap_days = 0 the two results are equal.
C19_WithinGreedy ==
    (pc = "done" /\ gap_days >= 0) =>
        /\ Range(episodes) \subseteq Range(GreedyStarts(dates, gap_days))
        /\ dates # <<>> => episodes[1] = GreedyStarts(dates, gap_days)[1]
        /\ gap_days = 0 => episodes = GreedyStarts(dates, gap_days)

\* days 1, 2, 3 with gap_days = 1: _episode_starts keeps day 1, the greedy
\* rule keeps days 1 and 3
C19_Witness ==
    /\ pc = "done"
    /\ dates = <<1, 2, 3>>
    /\ gap_days = 1
    /\ episodes = <<1>>
    /\ GreedyStarts(dates, gap_days) = <<1, 3>>

(***************************************************************************)
(* The builders as functions of their arguments                            *)
(***************************************************************************)
\* build_survival_labels on a daily table whose dates parse and whose keys
\* are not repeated, with events whose compression does not raise
LabelledTable(t, ev, gap, same) ==
    LET d == sort_values(DayRows(ParsedDaily(t)))
    IN  Labelled(d, EventMap(ObservableEvents(ev, d), gap), same)

\* build_rolling_features with a configuration that does not raise
RolledTable(t, w, minp, sts) ==
    Rolled(Coerced(sort_values(FeatureDayRows(KeepParsed(ParsedFeatures(t))))),
           w, minp, sts)

\* the daily rows of entity p, in input order
OwnDaily(p) == SelectSeq(daily, LAMBDA r : EntityOf(r) = p)

\* the events of entity p, in input order
OwnEvents(p) ==
    SelectSeq(events_df, LAMBDA r : Strip(astype_str(r.player_id)) = p)

\* the rows of entity p in the returned table
OwnOutput(p) == SelectSeq(out, LAMBDA r : r.id = p)

\* C20: in a returned table the rows of an entity, with their labels (T, E)
\* or their rolled values, are the rows the builder returns when it is given
\* the daily rows and the events of that entity alone.
C20_EntityIndependence ==
    pc = "done" =>
        \A p \in {out[i].id : i \in 1..Len(out)} :
            OwnOutput(p) =
                IF prog = "build_survival_labels"
                THEN LabelledTable(OwnDaily(p), OwnEvents(p), gap_days, include_same_day)
                ELSE RolledTable(OwnDaily(p), window, min_periods, stats)

\* a labelled table of two entities with different last days, each with a
\* row labelled by an event of its own
C20_Witness ==
    /\ prog = "build_survival_labels"
    /\ pc = "done"
    /\ \E i, j \in 1..Len(out) :
        /\ out[i].id # out[j].id
        /\ out[i].E = 1
        /\ out[j].E = 1
        /\ CensorDate(out[i].id) < CensorDate(out[j].id)
        /\ EventDays(out[i].id) # EventDays(out[j].id)

(***************************************************************************)
(* Normalization of the table in build_rolling_features                    *)
(***************************************************************************)
\* the rows of the daily input with an id and a date that parses
WellFormedRows ==
    {i \in 1..Len(daily) : daily[i].id # <<>> /\ ~Unparsable(daily[i])}

\* C22 as stated: the returned table holds the input rows that have an id
\* and a date that parses, and no other row: a row whose id is missing or
\* whose date does not parse is in no entity's partition; the rows are in
\* ascending (id, date) order.
C22_AsStated ==
    RollingDone =>
        /\ Len(out) = Cardinality(WellFormedRows)
        /\ \A j \in 1..Len(out) : \E i \in WellFormedRows :
             /\ out[j].id = EntityOf(daily[i])
             /\ out[j].date = daily[i].date[1]
        /\ RowsAscending(OutputRows)

(***************************************************************************)
(* Validation of gap_days in build_survival_labels                         *)
(***************************************************************************)
\* C23 as stated: a call with gap_days < 0 raises for every daily table and
\* every event table, before any label is computed: it never labels a row
\* or returns a table.
C23_AsStated ==
    (LabelsRun /\ gap_days < 0) => (pc # "done" /\ out = <<>>)

(***************************************************************************)
(* The row of the censor date                                              *)
(***************************************************************************)
\* C24: the row of an entity's last observed day has T = 0; it has E = 1
\* exactly when the same day is included and an episode start of the entity
\* falls on that day, so it has E = 0 whenever the same day is excluded.
C24_CensorRow ==
    (LabelsRun /\ pc = "done") =>
        \A i \in 1..Len(out) :
            out[i].date = CensorDate(out[i].id) =>
                /\ out[i].T = 0
                /\ out[i].E = 1 <=>
                     (include_same_day /\ out[i].date \in EpisodeStartsOf(out[i].id))

\* a run including the same day, where one entity has an event on its last
\* day that starts no episode (its last row has E = 0) and a row labelled by
\* the episode start before it
C24_Witness ==
    /\ LabelsRun
    /\ pc = "done"
    /\ include_same_day
    /\ \E i, j \in 1..Len(out) :
        /\ out[i].id = out[j].id
        /\ out[i].date = CensorDate(out[i].id)
        /\ out[i].date \in EventDays(out[i].id)
        /\ out[i].E = 0
        /\ out[j].E = 1

(***************************************************************************)
(* The web API: upload_csv, delete_csv, delete_team                        *)
(*                                                                         *)
(* A name is a sequence of one-character strings.  A path is the sequence  *)
(* of the names of its segments from the root, with "." and ".." resolved  *)
(* as the file system resolves them.  A stored file is a record of its     *)
(* path and of the team_name and filename of the upload that wrote it.     *)
(***************************************************************************)
\* ROOT_DIR/frontend/data, from ROOT_DIR
DATA_DIR == << <<"f", "r", "o", "n", "t", "e", "n", "d">>, <<"d", "a", "t", "a">> >>

\* str.endswith
EndsWith(name, suffix) ==
    /\ Len(name) >= Len(suffix)
    /\ SubSeq(name, Len(name) - Len(suffix) + 1, Len(name)) = suffix

\* the position of the first c in name, Len(name) + 1 when there is none
Find(name, c) ==
    IF \E i \in 1..Len(name) : name[i] = c
    THEN SetMin({i \in 1..Len(name) : name[i] = c})
    ELSE Len(name) + 1

RECURSIVE Split(_, _)
\* str.split(c): the pieces between the occurrences of c, empty ones included
Split(name, c) ==
    IF Find(name, c) > Len(name) THEN <<name>>
    ELSE <<SubSeq(name, 1, Find(name, c) - 1)>>
            \o Split(SubSeq(name, Find(name, c) + 1, Len(name)), c)

RECURSIVE Join(_, _)
\* sep.join(words)
Join(words, sep) ==
    IF Len(words) = 0 THEN <<>>
    ELSE IF Len(words) = 1 THEN words[1]
    ELSE words[1] \o <<sep>> \o Join(Tail(words), sep)

RECURSIVE StripChars(_, _)
\* str.strip(chars)
StripChars(name, chars) ==
    IF name # <<>> /\ name[1] \in chars THEN StripChars(Tail(name), chars)
    ELSE IF name # <<>> /\ Last(name) \in chars THEN StripChars(Front(name), chars)
    ELSE name

\* the characters secure_filename keeps: [A-Za-z0-9_.-]
SafeChars == {"a", "b", "c", "s", "v", "t", "x", "_", ".", "-"}

\* werkzeug.utils.secure_filename: the separators become blanks, the words
\* are joined with "_", the other characters are removed, and "." and "_"
\* are stripped from both ends
secure_filename(name) ==
    LET spaced == [i \in 1..Len(name) |-> IF name[i] = "/" THEN " " ELSE name[i]]
        words  == SelectSeq(Split(spaced, " "), LAMBDA w : w # <<>>)
        kept   == SelectSeq(Join(words, "_"), LAMBDA c : c \in SafeChars)
    IN  StripChars(kept, {".", "_"})

RECURSIVE Walk(_, _)
\* the path reached from base along the segments segs
Walk(base, segs) ==
    IF Len(segs) = 0 THEN base
    ELSE IF segs[1] = <<>> \/ segs[1] = <<".">> THEN Walk(base, Tail(segs))
    ELSE IF segs[1] = <<".", ".">>
    THEN Walk(IF Len(base) = 0 THEN base ELSE Front(base), Tail(segs))
    ELSE Walk(base \o <<segs[1]>>, Tail(segs))

\* os.path.join(base, name), as a location: a name that starts with "/" is
\* an absolute path
os_path_join(base, name) ==
    IF name # <<>> /\ name[1] = "/" THEN Walk(<<>>, Split(name, "/"))
    ELSE Walk(base, Split(name, "/"))

\* the path and its ancestors
Prefixes(path) == {SubSeq(path, 1, k) : k \in 1..Len(path)}

\* path is at or below base
Under(path, base) ==
    Len(path) >= Len(base) /\ SubSeq(path, 1, Len(base)) = base

\* routes.py lines 118-123: where upload_csv saves
UploadDir(team_name) == os_path_join(DATA_DIR, team_name)

UploadPath(team_name, filename) == os_path_join(UploadDir(team_name), filename)

\* routes.py lines 146-149: the path delete_csv removes
DeletePath(team_id, filename) ==
    os_path_join(os_path_join(DATA_DIR, secure_filename(team_id)),
                 secure_filename(filename))

\* routes.py lines 162-163: the path delete_team removes
TeamPath(team_id) == os_path_join(DATA_DIR, secure_filename(team_id))

\* the <team_id> and <filename> parts of a URL: not empty, without "/"
Routable(name) == name # <<>> /\ \A i \in 1..Len(name) : name[i] # "/"

\* os.path.exists
Exists(path) == path \in dirs \/ \E f \in stored : f.path = path

IsFile(path) == \E f \in stored : f.path = path

\* the team names and file names of the requests
TeamNames ==
    { <<>>,
      <<"a">>,
      <<"a", " ", "b">>,
      <<"a", "_", "b">>,
      <<".", ".">>,
      <<"a", "/", "b">> }

FileNames ==
    { <<"a", ".", "c", "s", "v">>,
      <<"a", " ", "b", ".", "c", "s", "v">>,
      <<"a", ".", "t", "x", "t">> }

InitWeb ==
    /\ prog = "routes"
    /\ pc = "serving"
    /\ err = ""
    /\ err_count = 0
    /\ exclude_cols = {"player_id", "date", "source_file"}
    /\ stored = {}
    /\ dirs = Prefixes(Front(DATA_DIR)) \cup {<<>>}
    /\ event_source = "injury"
    /\ injury = NoFile
    /\ illness = NoFile
    /\ output_file = NoOutput
    /\ daily = <<>>
    /\ events_df = <<>>
    /\ gap_days = 0
    /\ include_same_day = FALSE
    /\ window = 7
    /\ min_periods = 1
    /\ stats = {"mean", "max", "std"}
    /\ df = <<>>
    /\ event_map = <<>>
    /\ out = <<>>
    /\ dates = <<>>
    /\ episodes = <<>>

\* routes.py lines 106-129 (api.py lines 76-97): POST /api/upload; err is
\* the status of the response
upload_csv(team_name, filename) ==
    /\ prog = "routes"
    /\ IF team_name = <<>>
       THEN err' = "400" /\ UNCHANGED <<stored, dirs>>
       ELSE IF ~EndsWith(filename, <<".", "c", "s", "v">>)
       THEN err' = "400" /\ UNCHANGED <<stored, dirs>>
       ELSE IF UploadPath(team_name, filename) \in dirs \cup Prefixes(UploadDir(team_name))
       THEN /\ err' = "500"
            /\ dirs' = dirs \cup Prefixes(UploadDir(team_name))
            /\ stored' = stored
       ELSE /\ err' = "200"
            /\ dirs' = dirs \cup Prefixes(UploadDir(team_name))
            /\ stored' = {f \in stored : f.path # UploadPath(team_name, filename)}
                            \cup {[path |-> UploadPath(team_name, filename),
                                   team_name |-> team_name,
                                   filename |-> filename]}
    /\ UNCHANGED <<prog, pc, exclude_cols, err_count, event_source, injury, illness,
                   output_file, daily, events_df, gap_days, include_same_day, window,
                   min_periods, stats, df, event_map, out, dates, episodes>>

\* routes.py lines 143-156 (api.py lines 111-125):
\* DELETE /api/team/<team_id>/file/<filename>
delete_csv(team_id, filename) ==
    /\ prog = "routes"
    /\ Routable(team_id) /\ Routable(filename)
    /\ IF ~Exists(DeletePath(team_id, filename))
       THEN err' = "404" /\ stored' = stored
       ELSE IF ~IsFile(DeletePath(team_id, filename))
       THEN err' = "500" /\ stored' = stored
       ELSE /\ err' = "200"
            /\ stored' = {f \in stored : f.path # DeletePath(team_id, filename)}
    /\ UNCHANGED <<prog, pc, dirs, exclude_cols, err_count, event_source, injury,
                   illness, output_file, daily, events_df, gap_days, include_same_day,
                   window, min_periods, stats, df, event_map, out, dates, episodes>>

\* routes.py lines 159-170 (api.py lines 128-140): DELETE /api/team/<team_id>
delete_team(team_id) ==
    /\ prog = "routes"
    /\ Routable(team_id)
    /\ IF ~Exists(TeamPath(team_id))
       THEN err' = "404" /\ UNCHANGED <<stored, dirs>>
       ELSE IF IsFile(TeamPath(team_id))
       THEN err' = "500" /\ UNCHANGED <<stored, dirs>>
       ELSE /\ err' = "200"
            /\ stored' = {f \in stored : ~Under(f.path, TeamPath(team_id))}
            /\ dirs' = {d \in dirs : ~Under(d, TeamPath(team_id))}
    /\ UNCHANGED <<prog, pc, exclude_cols, err_count, event_source, injury, illness,
                   output_file, daily, events_df, gap_days, include_same_day, window,
                   min_periods, stats, df, event_map, out, dates, episodes>>

NextWeb ==
    \/ \E team_name \in TeamNames, filename \in FileNames : upload_csv(team_name, filename)
    \/ \E team_id \in TeamNames, filename \in FileNames : delete_csv(team_id, filename)
    \/ \E team_id \in TeamNames : delete_team(team_id)

SpecWeb == InitWeb /\ [][NextWeb]_vars

\* C25: every stored CSV file lies inside the data directory, and the DELETE
\* request with the team name and file name of its upload addresses it.
C25_AsStated ==
    \A f \in stored :
        /\ Under(f.path, DATA_DIR)
        /\ Routable(f.team_name) /\ Routable(f.filename)
        /\ DeletePath(f.team_name, f.filename) = f.path

(***************************************************************************)
(* The feature columns of build_rolling_features                           *)
(*                                                                         *)
(* A row holds its cells by column name.  A cell of text is written        *)
(* <<0, 0>>: a number has a positive denominator, so no number is written  *)
(* so.                                                                     *)
(***************************************************************************)
Text == <<0, 0>>

\* the columns of the daily table beside player_id and date
ColumnNames == {"x", "name", "source_file"}

\* the tables with the keys ks in that order: column x holds numbers and
\* missing cells, column name text and numbers, column source_file text
ColumnTablesOf(ks) ==
    LET ColumnCells(c) == IF c = "x" THEN Cells
                          ELSE IF c = "name" THEN {Text, <<1>>}
                          ELSE {Text}
        RowCells == {f \in [ColumnNames -> Cells \cup {Text}] :
                        \A c \in ColumnNames : f[c] \in ColumnCells(c)}
    IN  {[i \in 1..Len(ks) |->
            [id |-> DailyId(ks[i][1]), date |-> <<ks[i][2]>>, cells |-> cs[i]]] :
            cs \in [1..Len(ks) -> RowCells]}

\* tables of one to MaxConfigRows rows, recorded day by day
ColumnTables ==
    UNION {ColumnTablesOf(DayByDay(S)) :
             S \in {X \in SUBSET Keys : X # {} /\ Cardinality(X) <= MaxConfigRows}}

\* line 148: exclude_cols holds id_col, date_col and the --exclude names
ExcludeSets == {{"player_id", "date"} \cup X : X \in SUBSET ColumnNames}

\* lines 48-52
NormalizedColumns(t) ==
    LET parsed == [i \in 1..Len(t) |->
                     [id |-> Strip(astype_str(t[i].id)),
                      date |-> parse_date_col(t[i].date), cells |-> t[i].cells]]
        kept   == SelectSeq(parsed, LAMBDA r : r.date # NaT)
    IN  sort_values([i \in 1..Len(kept) |->
                       [id |-> kept[i].id, date |-> kept[i].date[1],
                        cells |-> kept[i].cells]])

\* line 54, over df.columns
feature_cols(excl) == {c \in {"player_id", "date"} \cup ColumnNames : c \notin excl}

\* lines 55-56: every feature column is replaced by its coercion
CoercedColumns(t, excl) ==
    [i \in 1..Len(t) |->
        [id |-> t[i].id, date |-> t[i].date,
         cells |-> [c \in ColumnNames |->
                      IF c \in feature_cols(excl) THEN to_numeric(t[i].cells[c])
                      ELSE t[i].cells[c]]]]

\* pd.api.types.is_numeric_dtype(df[c]): the column holds no text
is_numeric_dtype(t, c) == \A i \in 1..Len(t) : t[i].cells[c] # Text

\* line 58, on the coerced table
numeric_feature_cols(t, excl) == {c \in feature_cols(excl) : is_numeric_dtype(t, c)}

\* the table with column c as its feature column
ColumnView(t, c) ==
    [i \in 1..Len(t) |-> [id |-> t[i].id, date |-> t[i].date, x |-> t[i].cells[c]]]

\* lines 62-96 over the feature columns cols
RolledColumns(t, cols, w, minp, sts) ==
    [i \in 1..Len(t) |->
        [id |-> t[i].id, date |-> t[i].date, cells |-> t[i].cells,
         rolled |-> [k \in {RollColumn(w, s, c) : s \in sts \cap Allowed, c \in cols} |->
                        Statistic(k[3], WindowCells(ColumnView(t, k[4]), i, w), minp)]]]

InitRollingColumns ==
    /\ prog = "feature_cols"
    /\ pc = "start"
    /\ err = ""
    /\ err_count = 0
    /\ exclude_cols \in ExcludeSets
    /\ stored = {}
    /\ dirs = {}
    /\ event_source = "injury"
    /\ injury = NoFile
    /\ illness = NoFile
    /\ output_file = NoOutput
    /\ daily \in ColumnTables
    /\ events_df = <<>>
    /\ gap_days = 0
    /\ include_same_day = FALSE
    /\ window \in 1..MaxWindow
    /\ min_periods = 1
    /\ stats = {"mean", "max", "std"}
    /\ df = <<>>
    /\ event_map = <<>>
    /\ out = <<>>
    /\ dates = <<>>
    /\ episodes = <<>>

\* lines 38-52
NormalizeColumns ==
    /\ prog = "feature_cols"
    /\ pc = "start"
    /\ IF window <= 0 \/ min_periods <= 0
       THEN /\ pc' = "error"
            /\ err' = "ValueError"
            /\ df' = df
       ELSE /\ pc' = "sorted"
            /\ err' = err
            /\ df' = NormalizedColumns(daily)
    /\ UNCHANGED <<prog, exclude_cols, stored, dirs, err_count, event_source, injury,
                   illness, output_file, daily, events_df, gap_days, include_same_day,
                   window, min_periods, stats, event_map, out, dates, episodes>>

\* lines 54-60
ClassifyColumns ==
    /\ prog = "feature_cols"
    /\ pc = "sorted"
    /\ df' = CoercedColumns(df, exclude_cols)
    /\ IF numeric_feature_cols(CoercedColumns(df, exclude_cols), exclude_cols) = {}
       THEN pc' = "error" /\ err' = "ValueError"
       ELSE pc' = "coerced" /\ err' = err
    /\ UNCHANGED <<prog, exclude_cols, stored, dirs, err_count, event_source, injury,
                   illness, output_file, daily, events_df, gap_days, include_same_day,
                   window, min_periods, stats, event_map, out, dates, episodes>>

\* lines 62-96
RollColumns ==
    /\ prog = "feature_cols"
    /\ pc = "coerced"
    /\ IF stats \cap Allowed = {} \/ min_periods > window
       THEN /\ pc' = "error"
            /\ err' = "ValueError"
            /\ out' = out
       ELSE /\ pc' = "done"
            /\ err' = err
            /\ out' = RolledColumns(df, numeric_feature_cols(df, exclude_cols),
                                    window, min_periods, stats)
    /\ UNCHANGED <<prog, exclude_cols, stored, dirs, err_count, event_source, injury,
                   illness, output_file, daily, events_df, gap_days, include_same_day,
                   window, min_periods, stats, df, event_map, dates, episodes>>

NextRollingColumns == NormalizeColumns \/ ClassifyColumns \/ RollColumns

SpecRollingColumns == InitRollingColumns /\ [][NextRollingColumns]_vars

\* column c is not excluded and none of its cells is a number
NotCoercible(c) ==
    /\ c \notin exclude_cols
    /\ \A i \in 1..Len(daily) : daily[i].cells[c] = Text

\* C21: a column that is not excluded and cannot be coerced to numeric gets no
\* roll* column, and when no numeric feature column remains the call fails
\* and returns no table.
C21_AsStated ==
    prog = "feature_cols" =>
        /\ pc = "done" =>
             \A c \in ColumnNames : NotCoercible(c) =>
                \A i \in 1..Len(out) : \A k \in DOMAIN out[i].rolled : k[4] # c
        /\ (\A c \in ColumnNames : c \notin exclude_cols => NotCoercible(c)) =>
             pc # "done"

====
